---- MODULE Spec2Model ----
(***************************************************************************)
(* Channel deletion and recovery of the Tweetube backend                  *)
(* (ChannelDeletionService in backend/src/controllers/user.controller.js) *)
(* over the Mongoose models of backend/src/models.                        *)
(*                                                                         *)
(* The database is one record of collections.  A service call runs its     *)
(* callback inside session.withTransaction: writes issued with the session *)
(* go to a working copy that replaces the committed database only when the *)
(* callback returns without throwing.                                      *)
(***************************************************************************)
EXTENDS Integers, FiniteSets, Sequences, TLC

VARIABLES db, now, last, calls

vars == <<db, now, last, calls>>

----------------------------------------------------------------------------
(* Bounds of the model *)

MaxDeletes == 1
MaxFewSubscribers == 60
MaxRuns == 3
MaxToggles == 3
MaxAnonymized == 2

(* Program constants *)

batchSize == 10000
RecoveryDays == 30

----------------------------------------------------------------------------
(* Values *)

Null == 0
Absent == "absent"
Policies == {"deleted", "archived", "anonymized"}
DeletionReasons == {"user_request", "policy_violation", "copyright", "spam", "other"}

UserIds == {1, 2, 3}
ViewCounts == {1, 2}
\* ids a recovery may ask for: one never used, one of a registered user
FreshUserIds == {4}
TakenUserIds == {2}

\* An id handed to the service is an ObjectId (req.user._id) or the 24-hex
\* string of one (req.params.userId).
IdArg(i, s) == [v |-> i, str |-> s]

\* Mongoose casts a query filter to the schema type: a string id matches.
QueryMatch(field, arg) == field = arg.v

\* Mongoose does not cast aggregation pipeline stages: a string never equals
\* an ObjectId in $match.
AggregateMatch(field, arg) == ~arg.str /\ field = arg.v

RECURSIVE SumViews(_)
SumViews(S) ==
    IF S = {} THEN 0
    ELSE LET x == CHOOSE y \in S : TRUE
         IN  x.views + SumViews(S \ {x})

----------------------------------------------------------------------------
(* Unit of work: session.withTransaction *)

NoStats ==
    [subscriberCount |-> 0, videoCount |-> 0, totalViews |-> 0,
     totalLikes |-> 0, totalComments |-> 0]

\* c: committed database, w: what the session sees, err: the error thrown
\* by the callback ("" while none), step: the step that threw,
\* user/stats: locals of the callback.
Begin(d) ==
    [c |-> d, w |-> d, err |-> "", step |-> 0, user |-> {}, stats |-> NoStats]

Throw(t, e) == [t EXCEPT !.err = e]

\* withTransaction without the abort: the writes of a failed callback stay.
withTransaction_noRollback(t) == t.w

\* The callback returned: commit.  It threw: abort, the session's writes
\* are discarded.
withTransaction(t) == IF t.err = "" THEN t.w ELSE t.c

----------------------------------------------------------------------------
(* ChannelDeletionService.deleteChannel and its processors *)

findUser(t, userId) ==
    LET found == {u \in t.w.users : QueryMatch(u.id, userId)}
    IN  IF found = {} THEN Throw(t, "404") ELSE [t EXCEPT !.user = found]

getChannelStats(t, userId) ==
    LET \* Video.find(...).distinct('_id') carries no session
        ownedIds == {v.id : v \in {x \in t.c.videos : QueryMatch(x.owner, userId)}}
    IN  [subscriberCount |->
            Cardinality({s \in t.w.subs :
                QueryMatch(s.channel, userId) /\ s.status = "active"}),
         videoCount |->
            Cardinality({v \in t.w.videos :
                QueryMatch(v.owner, userId) /\ v.isPublished}),
         totalViews |->
            SumViews({v \in t.w.videos : AggregateMatch(v.owner, userId)}),
         totalLikes |->
            Cardinality({e \in t.w.engs :
                /\ e.content \in ownedIds
                /\ e.contentType = "video"
                /\ e.engagementType = "like"}),
         totalComments |->
            Cardinality({c \in t.w.comments : QueryMatch(c.owner, userId)})]

snapshotStats(t, userId) == [t EXCEPT !.stats = getChannelStats(t, userId)]

\* a supplied object whose missing comments path takes the default of the
\* analytics path
resolveDataRetention_analyticsDefault(options) ==
    IF ~options.dataRetention.given
    THEN [videos |-> "archived", comments |-> "anonymized", analytics |-> "archived"]
    ELSE [videos |-> IF options.dataRetention.videos = Absent
                     THEN "archived" ELSE options.dataRetention.videos,
          comments |-> IF options.dataRetention.comments = Absent
                       THEN "archived" ELSE options.dataRetention.comments,
          analytics |-> "archived"]

\* options.dataRetention || { videos: 'archived', comments: 'anonymized',
\* analytics: 'archived' }, then the schema defaults for missing paths.
resolveDataRetention(options) ==
    IF ~options.dataRetention.given
    THEN [videos |-> "archived", comments |-> "anonymized", analytics |-> "archived"]
    ELSE [videos |-> IF options.dataRetention.videos = Absent
                     THEN "archived" ELSE options.dataRetention.videos,
          comments |-> IF options.dataRetention.comments = Absent
                       THEN "anonymized" ELSE options.dataRetention.comments,
          analytics |-> "archived"]

\* DeletedChannel.create outside the session, on a collection without the
\* unique index of originalUserId, in a callback that withTransaction runs
\* a second time: each run inserts a tombstone.
createTombstone_retried(t, clock, userId, reason, deletedBy, options) ==
    LET user == CHOOSE u \in t.user : TRUE
        doc(n) == [id |-> n,
                   originalUserId |-> userId.v,
                   username |-> user.username,
                   fullName |-> user.fullName,
                   email |-> user.email,
                   stats |-> t.stats,
                   deletionReason |-> reason,
                   deletedBy |-> deletedBy,
                   recoveryDeadline |-> clock + RecoveryDays,
                   isRecoverable |-> TRUE,
                   dataRetention |-> resolveDataRetention(options)]
    IN  [t EXCEPT !.w.tombs = @ \cup {doc(t.w.nextId), doc(t.w.nextId + 1)},
                  !.w.nextId = @ + 2]

createTombstone(t, clock, userId, reason, deletedBy, options) ==
    LET user == CHOOSE u \in t.user : TRUE
        dr == resolveDataRetention(options)
        doc == [id |-> t.w.nextId,
                originalUserId |-> userId.v,
                username |-> user.username,
                fullName |-> user.fullName,
                email |-> user.email,
                stats |-> t.stats,
                deletionReason |-> reason,
                deletedBy |-> deletedBy,
                recoveryDeadline |-> clock + RecoveryDays,
                isRecoverable |-> TRUE,
                dataRetention |-> dr]
    IN  IF \/ reason \notin DeletionReasons
           \/ dr.videos \notin Policies
           \/ dr.comments \notin Policies
        THEN Throw(t, "ValidationError")
        ELSE IF \E x \in t.w.tombs : x.originalUserId = userId.v
        THEN Throw(t, "E11000")
        ELSE [t EXCEPT !.w.tombs = @ \cup {doc}, !.w.nextId = @ + 1]

\* updateOne in place of updateMany: one match is modified.
cancelRound_updateOne(subs, userId) ==
    LET hit == {s \in subs : QueryMatch(s.channel, userId) /\ s.status = "active"}
    IN  IF hit = {} THEN subs
        ELSE LET s == CHOOSE x \in hit : TRUE
             IN  (subs \ {s}) \cup {[s EXCEPT !.status = "cancelled"]}

\* an update whose filter matches no document
cancelRound_noMatch(subs, userId) == subs

\* the update matching the channel whatever the status
cancelRound_anyStatus(subs, userId) ==
    {IF QueryMatch(s.channel, userId)
     THEN [s EXCEPT !.status = "cancelled"] ELSE s : s \in subs}

\* Subscription.updateMany(filter, {status:'cancelled'}, {session, limit}):
\* updateMany has no limit, every match is modified.
cancelRound(subs, userId) ==
    {IF QueryMatch(s.channel, userId) /\ s.status = "active"
     THEN [s EXCEPT !.status = "cancelled"] ELSE s : s \in subs}

modifiedCount(subs, userId) ==
    Cardinality({s \in subs : QueryMatch(s.channel, userId) /\ s.status = "active"})

RECURSIVE cancelLoop(_, _)
cancelLoop(subs, userId) ==
    IF modifiedCount(subs, userId) < batchSize
    THEN cancelRound(subs, userId)
    ELSE cancelLoop(cancelRound(subs, userId), userId)

\* the recount keyed by channel in place of subscriber
updateAffectedSubscriberCounts_byChannel(t, deletedUserId) ==
    LET subscribers ==
            {s.subscriber : s \in {x \in t.w.subs : QueryMatch(x.channel, deletedUserId)}}
        activeSubscriptions(sid) ==
            Cardinality({s \in t.w.subs : s.channel = sid /\ s.status = "active"})
    IN  [t EXCEPT !.w.users =
            {IF u.id \in subscribers
             THEN [u EXCEPT !.subscriberCount = activeSubscriptions(u.id)]
             ELSE u : u \in @}]

updateAffectedSubscriberCounts(t, deletedUserId) ==
    LET subscribers ==
            {s.subscriber : s \in {x \in t.w.subs : QueryMatch(x.channel, deletedUserId)}}
        activeSubscriptions(sid) ==
            Cardinality({s \in t.w.subs : s.subscriber = sid /\ s.status = "active"})
    IN  [t EXCEPT !.w.users =
            {IF u.id \in subscribers
             THEN [u EXCEPT !.subscriberCount = activeSubscriptions(u.id)]
             ELSE u : u \in @}]

handleSubscriptions(t, userId) ==
    updateAffectedSubscriberCounts(
        [t EXCEPT !.w.subs = cancelLoop(@, userId)], userId)

Marker(tag, oid) == [tag |-> tag, n |-> oid]

\* 'deleted' removing the published videos only
handleVideos_publishedOnly(t, userId, retentionPolicy) ==
    IF retentionPolicy = "deleted"
    THEN [t EXCEPT !.w.videos =
            {v \in @ : ~(QueryMatch(v.owner, userId) /\ v.isPublished)}]
    ELSE t

\* 'archived' without the unpublish
handleVideos_keepPublished(t, userId, retentionPolicy) ==
    IF retentionPolicy = "archived"
    THEN [t EXCEPT !.w.videos =
            {IF QueryMatch(v.owner, userId)
             THEN [v EXCEPT !.owner = Null,
                            !.title = Marker("[Deleted Channel] ", t.w.nextId)]
             ELSE v : v \in @},
                   !.w.nextId = @ + 1]
    ELSE t

\* the updates matching the documents without an owner as well
handleVideos_unscoped(t, userId, retentionPolicy) ==
    LET hit(v) == QueryMatch(v.owner, userId) \/ v.owner = Null
    IN  CASE retentionPolicy = "deleted" ->
                [t EXCEPT !.w.videos = {v \in @ : ~QueryMatch(v.owner, userId)}]
          [] retentionPolicy = "archived" ->
                [t EXCEPT !.w.videos =
                    {IF hit(v)
                     THEN [v EXCEPT !.isPublished = FALSE, !.owner = Null,
                                    !.title = Marker("[Deleted Channel] ", t.w.nextId)]
                     ELSE v : v \in @},
                          !.w.nextId = @ + 1]
          [] retentionPolicy = "anonymized" ->
                [t EXCEPT !.w.videos =
                    {IF hit(v)
                     THEN [v EXCEPT !.owner = Null,
                                    !.title = Marker("[Anonymous] ", t.w.nextId)]
                     ELSE v : v \in @},
                          !.w.nextId = @ + 1]
          [] OTHER -> t

handleVideos(t, userId, retentionPolicy) ==
    CASE retentionPolicy = "deleted" ->
            [t EXCEPT !.w.videos = {v \in @ : ~QueryMatch(v.owner, userId)}]
      [] retentionPolicy = "archived" ->
            [t EXCEPT !.w.videos =
                {IF QueryMatch(v.owner, userId)
                 THEN [v EXCEPT !.isPublished = FALSE, !.owner = Null,
                                !.title = Marker("[Deleted Channel] ", t.w.nextId)]
                 ELSE v : v \in @},
                      !.w.nextId = @ + 1]
      [] retentionPolicy = "anonymized" ->
            [t EXCEPT !.w.videos =
                {IF QueryMatch(v.owner, userId)
                 THEN [v EXCEPT !.owner = Null,
                                !.title = Marker("[Anonymous] ", t.w.nextId)]
                 ELSE v : v \in @},
                      !.w.nextId = @ + 1]
      [] OTHER -> t

handleComments(t, userId, retentionPolicy) ==
    CASE retentionPolicy = "deleted" ->
            [t EXCEPT !.w.comments = {c \in @ : ~QueryMatch(c.owner, userId)}]
      [] retentionPolicy = "anonymized" ->
            [t EXCEPT !.w.comments =
                {IF QueryMatch(c.owner, userId)
                 THEN [c EXCEPT !.owner = Null,
                                !.content = Marker("[Comment deleted]", 0)]
                 ELSE c : c \in @}]
      [] retentionPolicy = "archived" ->
            [t EXCEPT !.w.comments =
                {IF QueryMatch(c.owner, userId)
                 THEN [c EXCEPT !.owner = Null] ELSE c : c \in @}]
      [] OTHER -> t

handleEngagements(t, userId) ==
    LET userContent == {v.id : v \in {x \in t.w.videos : QueryMatch(x.owner, userId)}}
        onContent == IF userContent # {}
                     THEN {e \in t.w.engs :
                              e.content \in userContent /\ e.contentType = "video"}
                     ELSE {}
    IN  [t EXCEPT !.w.engs = {e \in @ \ onContent : ~QueryMatch(e.user, userId)}]

\* unique index { user: 1, video: 1 } of watchHistorySchema
WatchHistoryUnique(wh) ==
    \A a, b \in wh : (a.user = b.user /\ a.video = b.video) => a = b

handleWatchHistory(t, userId, options) ==
    LET watchHistoryRetention ==
            IF options.watchHistoryRetention = Absent
            THEN "anonymized" ELSE options.watchHistoryRetention
        userVideos == {v.id : v \in {x \in t.w.videos : QueryMatch(x.owner, userId)}}
        byUser == {IF QueryMatch(r.user, userId)
                   THEN [r EXCEPT !.user = Null] ELSE r : r \in t.w.whist}
        \* metadata is not a path of watchHistorySchema: strict mode drops it
        byVideo == {IF r.video \in userVideos
                    THEN [r EXCEPT !.video = Null] ELSE r : r \in byUser}
    IN  CASE watchHistoryRetention = "deleted" ->
                [t EXCEPT !.w.whist =
                    {r \in @ : ~QueryMatch(r.user, userId) /\ r.video \notin userVideos}]
          [] watchHistoryRetention = "anonymized" ->
                IF ~WatchHistoryUnique(byUser) \/ ~WatchHistoryUnique(byVideo)
                THEN Throw(t, "E11000")
                ELSE [t EXCEPT !.w.whist = byVideo]
             \* archived, archivedAt, archivedReason, originalVideoId are not
             \* paths of watchHistorySchema: strict mode drops the whole update
          [] watchHistoryRetention = "archived" -> t
          [] OTHER -> t

handlePlaylists(t, userId) ==
    [t EXCEPT !.w.playlists = {p \in @ : ~QueryMatch(p.owner, userId)}]

handleTweets(t, userId) ==
    [t EXCEPT !.w.tweets = {p \in @ : ~QueryMatch(p.owner, userId)}]

\* the callback without its last statement
deleteUser_skipped(t, userId) == t

deleteUser(t, userId) ==
    [t EXCEPT !.w.users = {u \in @ : ~QueryMatch(u.id, userId)}]

\* The callback of deleteChannel, in the order of its statements.
DeleteSteps ==
    <<"findUser", "getChannelStats", "createTombstone", "handleSubscriptions",
      "handleVideos", "handleComments", "handleEngagements",
      "handleWatchHistory", "handlePlaylists", "handleTweets", "deleteUser">>

deleteStep(name, t, a) ==
    CASE name = "findUser" -> findUser(t, a.userId)
      [] name = "getChannelStats" -> snapshotStats(t, a.userId)
      [] name = "createTombstone" ->
            createTombstone(t, a.clock, a.userId, a.reason, a.deletedBy, a.options)
      [] name = "handleSubscriptions" -> handleSubscriptions(t, a.userId)
      [] name = "handleVideos" ->
            handleVideos(t, a.userId,
                IF a.options.dataRetention.given
                   /\ a.options.dataRetention.videos # Absent
                THEN a.options.dataRetention.videos ELSE "archived")
      [] name = "handleComments" ->
            handleComments(t, a.userId,
                IF a.options.dataRetention.given
                   /\ a.options.dataRetention.comments # Absent
                THEN a.options.dataRetention.comments ELSE "anonymized")
      [] name = "handleEngagements" -> handleEngagements(t, a.userId)
      [] name = "handleWatchHistory" -> handleWatchHistory(t, a.userId, a.options)
      [] name = "handlePlaylists" -> handlePlaylists(t, a.userId)
      [] name = "handleTweets" -> handleTweets(t, a.userId)
      [] name = "deleteUser" -> deleteUser(t, a.userId)

\* A step may also fail for a reason outside the program (storage error,
\* timeout): failAt names the step that throws once its calls were issued.
injectFailure(t, k, failAt) ==
    IF t.err = "" /\ k = failAt THEN Throw(t, "injected") ELSE t

RECURSIVE runDelete(_, _, _)
runDelete(t, k, a) ==
    IF k > Len(DeleteSteps) THEN t
    ELSE LET t2 == injectFailure(deleteStep(DeleteSteps[k], t, a), k, a.failAt)
         IN  IF t2.err # "" THEN [t2 EXCEPT !.step = k]
             ELSE runDelete(t2, k + 1, a)

\* catch (error) { throw new ApiError(500, ...) }: every failure leaves the
\* service with status 500, whatever was thrown inside.
serviceResult(t) ==
    IF t.err = ""
    THEN [success |-> TRUE, status |-> 200, cause |-> "", step |-> 0]
    ELSE [success |-> FALSE, status |-> 500, cause |-> t.err, step |-> t.step]

deleteChannel(d, a) ==
    LET t == runDelete(Begin(d), 1, a)
    IN  [db |-> withTransaction(t), result |-> serviceResult(t)]

----------------------------------------------------------------------------
(* ChannelDeletionService.recoverChannel *)

\* required paths of userSchema
UserRequiredPaths == {"username", "fullName", "email", "avatar", "password"}

\* the paths recoverChannel hands to User.create
RecoveredUserPaths ==
    {"_id", "username", "fullName", "email", "avatar", "coverImage",
     "subscriberCount", "videoCount", "totalViews"}

\* a raw insert: no validation, no session
createUser_raw(t, doc, paths) ==
    [t EXCEPT !.w.users = @ \cup {doc}, !.c.users = @ \cup {doc}]

\* User.create([doc], { session }): validate, then insert under the unique
\* indexes of _id, username and email.
createUser(t, doc, paths) ==
    IF ~(UserRequiredPaths \subseteq paths)
    THEN Throw(t, "ValidationError")
    ELSE IF \E u \in t.w.users :
               u.id = doc.id \/ u.username = doc.username \/ u.email = doc.email
    THEN Throw(t, "E11000")
    ELSE [t EXCEPT !.w.users = @ \cup {doc}]

RecoverSteps ==
    <<"findTombstone", "checkRecoverable", "checkDeadline", "createUser",
      "saveTombstone">>

recoverStep(name, t, a) ==
    LET found == {x \in t.w.tombs : x.id = a.deletedChannelId}
        deletedChannel == CHOOSE x \in found : TRUE
    IN  CASE name = "findTombstone" ->
                IF found = {} THEN Throw(t, "404") ELSE t
          [] name = "checkRecoverable" ->
                IF ~deletedChannel.isRecoverable THEN Throw(t, "400") ELSE t
          [] name = "checkDeadline" ->
                IF a.clock > deletedChannel.recoveryDeadline
                THEN Throw(t, "400") ELSE t
          [] name = "createUser" ->
                createUser(t,
                    [id |-> a.newUserId,
                     username |-> deletedChannel.username,
                     fullName |-> deletedChannel.fullName,
                     email |-> deletedChannel.email,
                     subscriberCount |-> 0, videoCount |-> 0, totalViews |-> 0],
                    RecoveredUserPaths)
          [] name = "saveTombstone" ->
                [t EXCEPT !.w.tombs =
                    (@ \ found) \cup {[deletedChannel EXCEPT !.isRecoverable = FALSE]}]

RECURSIVE runRecover(_, _, _)
runRecover(t, k, a) ==
    IF k > Len(RecoverSteps) THEN t
    ELSE LET t2 == injectFailure(recoverStep(RecoverSteps[k], t, a), k, a.failAt)
         IN  IF t2.err # "" THEN [t2 EXCEPT !.step = k]
             ELSE runRecover(t2, k + 1, a)

recoverChannel(d, a) ==
    LET t == runRecover(Begin(d), 1, a)
    IN  [db |-> withTransaction(t), result |-> serviceResult(t)]

----------------------------------------------------------------------------
(* Entry points: deleteMyChannel and adminDeleteChannel of                  *)
(* channelDeletion.controller.js                                            *)

Rejected(status) ==
    [db |-> {}, result |-> [success |-> FALSE, status |-> status,
                            cause |-> "controller", step |-> 0]]

\* Object.values(dataRetention).forEach(policy => ... throw new ApiError(400))
validRetention(dataRetention) ==
    \/ ~dataRetention.given
    \/ /\ dataRetention.videos \in Policies \cup {Absent}
       /\ dataRetention.comments \in Policies \cup {Absent}

\* The handler validates the supplied values, then calls the service with
\* req.user._id and { dataRetention } (watchHistoryRetention is not passed).
deleteMyChannel(d, a) ==
    IF ~validRetention(a.dataRetention)
    THEN [Rejected(400) EXCEPT !.db = d]
    ELSE deleteChannel(d,
            [userId |-> IdArg(a.user, FALSE), reason |-> "user_request",
             deletedBy |-> Null,
             options |-> [dataRetention |-> a.dataRetention,
                          watchHistoryRetention |-> Absent],
             clock |-> a.clock, failAt |-> 0])

\* The handler checks req.user.isAdmin, then calls the service with the
\* string req.params.userId and the supplied values as they are.
adminDeleteChannel(d, a) ==
    IF ~a.isAdmin
    THEN [Rejected(403) EXCEPT !.db = d]
    ELSE deleteChannel(d,
            [userId |-> IdArg(a.userId, TRUE), reason |-> "policy_violation",
             deletedBy |-> a.admin,
             options |-> [dataRetention |-> a.dataRetention,
                          watchHistoryRetention |-> Absent],
             clock |-> a.clock, failAt |-> 0])

----------------------------------------------------------------------------
(* WatchHistoryManagementService.restoreWatchHistoryForChannel *)

\* a record carries the archive marks the restore filters on
Archived(r) ==
    /\ {"archived", "archivedReason", "originalVideoId"} \subseteq DOMAIN r
    /\ r.archived
    /\ r.archivedReason = "channel_deleted"

\* a $set whose video value passes the cast to ObjectId
restoreUpdate_castable(newUserId) ==
    [user |-> newUserId,
     video |-> [lit |-> "$metadata.originalVideoId", isObjectId |-> TRUE]]

\* the $set of the restore: user is an id, video is the string
\* '$metadata.originalVideoId' (an update document holds values, not field
\* references)
restoreUpdate(newUserId) ==
    [user |-> newUserId,
     video |-> [lit |-> "$metadata.originalVideoId", isObjectId |-> FALSE]]

\* a restore that also resets the stats of the tombstone it is given
restoreWatchHistoryForChannel_restat(d, deletedChannelId, newUserId) ==
    [db |-> [d EXCEPT !.tombs =
                {IF x.id = deletedChannelId
                 THEN [x EXCEPT !.stats = NoStats] ELSE x : x \in @}],
     result |-> [success |-> TRUE, status |-> 200, cause |-> "", step |-> 0]]

\* WatchHistory.updateMany(filter, update) with no session and no catch: the
\* update is cast to the schema first, and a video that is no ObjectId is
\* rejected with a CastError before anything is written.
restoreWatchHistoryForChannel(d, deletedChannelId, newUserId) ==
    LET update == restoreUpdate(newUserId)
        matched == {r \in d.whist : Archived(r)}
    IN  IF ~update.video.isObjectId
        THEN [db |-> d,
              result |-> [success |-> FALSE, status |-> 500,
                          cause |-> "CastError", step |-> 0]]
        ELSE [db |-> [d EXCEPT !.whist =
                        {IF r \in matched
                         THEN [r EXCEPT !.user = update.user,
                                        !.video = r.originalVideoId,
                                        !.archived = FALSE]
                         ELSE r : r \in @}],
              result |-> [success |-> TRUE, status |-> 200,
                          cause |-> "", step |-> 0]]

----------------------------------------------------------------------------
(* WatchHistoryManagementService.getUserWatchHistory *)

\* the stored document has archived: true
IsArchived(r) == "archived" \in DOMAIN r /\ r.archived

\* the stored document has metadata.deletedChannel: true
IsFromDeletedChannel(r) ==
    /\ "metadata" \in DOMAIN r
    /\ "deletedChannel" \in DOMAIN r.metadata
    /\ r.metadata.deletedChannel

\* { $sort: { createdAt: -1 } }, { $skip }, { $limit }: ids grow with the
\* time of creation
PageOf(S, skip, limit) ==
    {r \in S :
        LET newer == Cardinality({x \in S : x.id > r.id})
        IN  newer >= skip /\ newer < skip + limit}

\* the query without the two exclusions
getUserWatchHistory_unfiltered(d, userId, options) ==
    PageOf({r \in d.whist : AggregateMatch(r.user, userId)},
           (options.page - 1) * options.limit, options.limit)

\* WatchHistory.aggregate([{ $match: matchStage }, ...]): the stage is not
\* cast, the exclusions are { $ne: true }.
getUserWatchHistory(d, userId, options) ==
    LET matchStage(r) ==
            /\ AggregateMatch(r.user, userId)
            /\ ~options.includeArchived => ~IsArchived(r)
            /\ ~options.includeDeletedChannels => ~IsFromDeletedChannel(r)
    IN  PageOf({r \in d.whist : matchStage(r)},
               (options.page - 1) * options.limit, options.limit)

----------------------------------------------------------------------------
(* Initial database *)

Title(i) == Marker("orig", i)

\* the counters as migrateUserData sets them
UserDoc(i, subs, videos) ==
    [id |-> i, username |-> i, fullName |-> i, email |-> i,
     subscriberCount |->
        Cardinality({s \in subs : s.channel = i /\ s.status = "active"}),
     videoCount |-> Cardinality({v \in videos : v.owner = i /\ v.isPublished}),
     totalViews |-> SumViews({v \in videos : v.owner = i})]

Sub(s, c, st) == [subscriber |-> s, channel |-> c, status |-> st]
Eng(u, c, e) == [user |-> u, content |-> c, contentType |-> "video", engagementType |-> e]

InitDb(views) ==
    LET subs == {Sub(2, 1, "active"), Sub(3, 1, "paused"), Sub(2, 3, "active"),
                 Sub(1, 2, "active"), Sub(3, 2, "active"), Sub(1, 3, "cancelled")}
        videos == {[id |-> 11, owner |-> 1, isPublished |-> TRUE,
                    views |-> views, title |-> Title(11)],
                   [id |-> 12, owner |-> 1, isPublished |-> FALSE,
                    views |-> 1, title |-> Title(12)],
                   [id |-> 13, owner |-> 2, isPublished |-> TRUE,
                    views |-> 1, title |-> Title(13)]}
    IN  [users |-> {UserDoc(i, subs, videos) : i \in UserIds},
         videos |-> videos,
         subs |-> subs,
         engs |-> {Eng(2, 11, "like"), Eng(3, 11, "dislike"), Eng(1, 12, "like"),
                   Eng(1, 13, "like"), Eng(3, 13, "like")},
         comments |-> {[id |-> 21, owner |-> 1, content |-> Title(21)],
                       [id |-> 22, owner |-> 1, content |-> Title(22)],
                       [id |-> 23, owner |-> 2, content |-> Title(23)]},
         whist |-> {[id |-> 31, user |-> 1, video |-> 13],
                    [id |-> 32, user |-> 2, video |-> 11],
                    [id |-> 33, user |-> 3, video |-> 11],
                    [id |-> 34, user |-> 3, video |-> 13]},
         playlists |-> {[id |-> 41, owner |-> 1], [id |-> 42, owner |-> 2]},
         tweets |-> {[id |-> 51, owner |-> 1], [id |-> 52, owner |-> 3]},
         tombs |-> {},
         nextId |-> 100]

NoCall == [op |-> "none", target |-> 0, status |-> 0, cause |-> "", step |-> 0]

\* the calls that may run at the same time
CallIds == {"a", "b"}

Idle == [st |-> "idle"]

Init ==
    /\ \E views \in ViewCounts : db = InitDb(views)
    /\ now = 0
    /\ last = NoCall
    /\ calls = [c \in CallIds |-> Idle]

----------------------------------------------------------------------------
(* Requests *)

NotGiven == [given |-> FALSE, videos |-> Absent, comments |-> Absent]

Given(v, c) == [given |-> TRUE, videos |-> v, comments |-> c]

\* no options; one policy for every content class; one class alone
OptionInputs ==
    {[dataRetention |-> NotGiven, watchHistoryRetention |-> Absent]}
    \cup {[dataRetention |-> Given(p, p), watchHistoryRetention |-> p] : p \in Policies}
    \cup {[dataRetention |-> Given("anonymized", Absent), watchHistoryRetention |-> Absent],
          [dataRetention |-> Given(Absent, "deleted"), watchHistoryRetention |-> Absent]}

\* the options of the requests in which a step is made to fail
FailingOptionInputs ==
    {o \in OptionInputs : ~o.dataRetention.given}

\* the channel in whose deletion a step is made to fail: the one that has
\* records in every collection
FailingUserIds == {1}

\* deleteMyChannel passes req.user._id (an ObjectId), adminDeleteChannel
\* passes req.params.userId (a string).
DeleteRequests ==
    {[userId |-> IdArg(i, str), options |-> o, failAt |-> 0] :
        i \in UserIds, str \in BOOLEAN, o \in OptionInputs}
    \cup {[userId |-> IdArg(i, FALSE), options |-> o, failAt |-> k] :
        i \in FailingUserIds, o \in FailingOptionInputs,
        k \in 1..Len(DeleteSteps)}

MissingIds == {999}

RecoverRequests ==
    {[deletedChannelId |-> id, newUserId |-> n, failAt |-> k] :
        id \in {x.id : x \in db.tombs} \cup MissingIds,
        n \in TakenUserIds \cup FreshUserIds,
        k \in 0..Len(RecoverSteps)}

Exists(d, i) == \E u \in d.users : u.id = i

Call(op, target, result) ==
    [op |-> op, target |-> target, status |-> result.status,
     cause |-> result.cause, step |-> result.step]

DeleteChannel(req) ==
    /\ Exists(db, req.userId.v) => Cardinality(db.tombs) < MaxDeletes
    /\ LET r == deleteChannel(db,
                  [userId |-> req.userId, reason |-> "user_request",
                   deletedBy |-> Null, options |-> req.options,
                   clock |-> now, failAt |-> req.failAt])
       IN  /\ db' = r.db
           /\ last' = Call("deleteChannel", req.userId.v, r.result)
    /\ UNCHANGED <<now, calls>>

RecoverChannel(req) ==
    /\ LET r == recoverChannel(db,
                  [deletedChannelId |-> req.deletedChannelId,
                   newUserId |-> req.newUserId,
                   clock |-> now, failAt |-> req.failAt])
       IN  /\ db' = r.db
           /\ last' = Call("recoverChannel", req.deletedChannelId, r.result)
    /\ UNCHANGED <<now, calls>>

\* a value outside the enum of the retention policies
InvalidPolicies == {"purged"}

\* req.body.dataRetention: nothing, or an invalid value for one class
BodyRetentionInputs ==
    {NotGiven} \cup {Given(p, Absent) : p \in InvalidPolicies}

AdminIds == {3}

SelfDeleteRequests ==
    {[user |-> i, dataRetention |-> dr] :
        i \in UserIds, dr \in BodyRetentionInputs}

AdminDeleteRequests ==
    {[userId |-> i, admin |-> ad, isAdmin |-> b, dataRetention |-> dr] :
        i \in UserIds, ad \in AdminIds, b \in BOOLEAN,
        dr \in BodyRetentionInputs}

DeleteMyChannel(req) ==
    /\ Exists(db, req.user)
    /\ Cardinality(db.tombs) < MaxDeletes
    /\ LET r == deleteMyChannel(db,
                  [user |-> req.user, dataRetention |-> req.dataRetention,
                   clock |-> now])
       IN  /\ db' = r.db
           /\ last' = Call("deleteMyChannel", req.user, r.result)
    /\ UNCHANGED <<now, calls>>

AdminDeleteChannel(req) ==
    /\ Exists(db, req.admin)
    /\ Exists(db, req.userId) => Cardinality(db.tombs) < MaxDeletes
    /\ LET r == adminDeleteChannel(db,
                  [userId |-> req.userId, admin |-> req.admin,
                   isAdmin |-> req.isAdmin,
                   dataRetention |-> req.dataRetention, clock |-> now])
       IN  /\ db' = r.db
           /\ last' = Call("adminDeleteChannel", req.userId, r.result)
    /\ UNCHANGED <<now, calls>>

RestoreRequests ==
    {[deletedChannelId |-> id, newUserId |-> n] :
        id \in {x.id : x \in db.tombs} \cup MissingIds, n \in FreshUserIds}

RestoreWatchHistory(req) ==
    /\ LET r == restoreWatchHistoryForChannel(db, req.deletedChannelId,
                                               req.newUserId)
       IN  /\ db' = r.db
           /\ last' = Call("restoreWatchHistoryForChannel",
                           req.deletedChannelId, r.result)
    /\ UNCHANGED <<now, calls>>

\* Time passes: to the day after the recovery window of a deletion made at
\* time 0.
Tick ==
    /\ now <= RecoveryDays
    /\ now' = now + RecoveryDays + 1
    /\ UNCHANGED <<db, last, calls>>

Next ==
    \/ \E req \in DeleteRequests : DeleteChannel(req)
    \/ \E req \in RecoverRequests : RecoverChannel(req)
    \/ \E req \in SelfDeleteRequests : DeleteMyChannel(req)
    \/ \E req \in AdminDeleteRequests : AdminDeleteChannel(req)
    \/ \E req \in RestoreRequests : RestoreWatchHistory(req)
    \/ Tick

Spec == Init /\ [][Next]_vars

----------------------------------------------------------------------------
(* Two deleteChannel calls on one channel, running at the same time.  Each  *)
(* call runs its callback step by step in a transaction of its own, under   *)
(* the snapshot isolation of MongoDB: a write to a document that another    *)
(* open transaction has written, or that was committed after the snapshot   *)
(* was taken, is a WriteConflict; the transaction aborts and withTransaction *)
(* runs the callback again in a new transaction, or gives up when its time  *)
(* limit is reached.                                                        *)

Collections ==
    {"users", "videos", "subs", "engs", "comments", "whist", "playlists",
     "tweets", "tombs"}

\* what identifies a document of a collection to the storage engine: its
\* _id, or the key of its unique index
Key(coll, r) ==
    CASE coll = "subs" -> <<r.subscriber, r.channel>>
      [] coll = "engs" -> <<r.user, r.content>>
      [] coll = "tombs" -> r.originalUserId
      [] OTHER -> r.id

\* the documents in which database w differs from database c
Written(c, w) ==
    [coll \in Collections |->
        {Key(coll, r) : r \in (c[coll] \ w[coll]) \cup (w[coll] \ c[coll])}]

Conflicts(W1, W2) == \E coll \in Collections : W1[coll] \cap W2[coll] # {}

ConcOptionInputs ==
    {o \in OptionInputs :
        ~o.dataRetention.given \/ o.watchHistoryRetention = "deleted"}

ConcRequests ==
    {[userId |-> IdArg(i, FALSE), options |-> o] :
        i \in UserIds, o \in ConcOptionInputs}

Running(c) == calls[c].st = "running"

ArgsOf(req) ==
    [userId |-> req.userId, reason |-> "user_request", deletedBy |-> Null,
     options |-> req.options, clock |-> now, failAt |-> 0]

\* the call enters deleteChannel: session.withTransaction opens a transaction
StartDelete(c, req) ==
    /\ calls[c].st = "idle"
    /\ Exists(db, req.userId.v)
    /\ \A o \in CallIds \ {c} :
          calls[o].st # "idle" => calls[o].req.userId = req.userId
    /\ calls' = [calls EXCEPT ![c] =
                    [st |-> "running", k |-> 1, t |-> Begin(db), req |-> req]]
    /\ UNCHANGED <<db, now, last>>

Done(c, req, t) ==
    /\ calls' = [calls EXCEPT ![c] =
                    [st |-> "done", req |-> req, result |-> serviceResult(t)]]
    /\ last' = Call("deleteChannel", req.userId.v, serviceResult(t))

\* the next statement of the callback of call c
StepDelete(c) ==
    /\ Running(c)
    /\ LET me == calls[c]
           t2 == deleteStep(DeleteSteps[me.k], me.t, ArgsOf(me.req))
           new == Written(me.t.w, t2.w)
           open == {o \in CallIds \ {c} : Running(o)}
           conflict ==
              \/ \E o \in open : Conflicts(new, Written(calls[o].t.c, calls[o].t.w))
              \/ Conflicts(new, Written(me.t.c, db))
       IN  IF t2.err # ""
           THEN \* the callback threw: abort, the error leaves the service
                /\ Done(c, me.req, [t2 EXCEPT !.step = me.k])
                /\ UNCHANGED <<db, now>>
           ELSE IF conflict
           THEN \* WriteConflict: run the callback again, or give up
                /\ \/ /\ calls' = [calls EXCEPT ![c] =
                                    [me EXCEPT !.k = 1, !.t = Begin(db)]]
                      /\ UNCHANGED last
                   \/ Done(c, me.req,
                          [Throw(t2, "WriteConflict") EXCEPT !.step = me.k])
                /\ UNCHANGED <<db, now>>
           ELSE IF me.k < Len(DeleteSteps)
           THEN /\ calls' = [calls EXCEPT ![c] = [me EXCEPT !.k = @ + 1, !.t = t2]]
                /\ UNCHANGED <<db, now, last>>
           ELSE \* the callback returned: commit
                /\ db' = withTransaction(t2)
                /\ Done(c, me.req, t2)
                /\ UNCHANGED now

NextConc ==
    \/ \E c \in CallIds : \E req \in ConcRequests : StartDelete(c, req)
    \/ \E c \in CallIds : StepDelete(c)

SpecConc == Init /\ [][NextConc]_vars

----------------------------------------------------------------------------
(* The watch-history query over stored collections.  aggregate reads the    *)
(* documents as they are stored, with or without the archive marks.         *)

StoredHistory(i, u, v, a, dc) ==
    [id |-> i, user |-> u, video |-> v, archived |-> a,
     metadata |-> [deletedChannel |-> dc]]

StoredHistories ==
    {StoredHistory(61, 1, 13, FALSE, FALSE), StoredHistory(62, 1, 11, TRUE, FALSE),
     StoredHistory(63, 1, 12, FALSE, TRUE), StoredHistory(64, 1, 14, TRUE, TRUE),
     StoredHistory(65, 2, 11, FALSE, FALSE), StoredHistory(66, 2, 13, TRUE, FALSE),
     StoredHistory(67, Null, 13, FALSE, TRUE)}

DefaultLimit == 20

QueryOptionInputs ==
    {[page |-> p, limit |-> l, includeArchived |-> a,
      includeDeletedChannels |-> dc] :
        p \in {1, 2}, l \in {1, DefaultLimit}, a \in BOOLEAN, dc \in BOOLEAN}

QueryRequests ==
    {[userId |-> IdArg(i, str), options |-> o] :
        i \in UserIds, str \in BOOLEAN, o \in QueryOptionInputs}

InitQuery ==
    /\ \E views \in ViewCounts : \E wh \in SUBSET StoredHistories :
          db = [InitDb(views) EXCEPT !.whist = wh]
    /\ now = 0
    /\ last = NoCall
    /\ calls = [c \in CallIds |-> Idle]

GetUserWatchHistory(req) ==
    /\ last' = [op |-> "getUserWatchHistory", userId |-> req.userId,
                options |-> req.options,
                result |-> getUserWatchHistory(db, req.userId, req.options)]
    /\ UNCHANGED <<db, now, calls>>

NextQuery == \E req \in QueryRequests : GetUserWatchHistory(req)

SpecQuery == InitQuery /\ [][NextQuery]_vars

----------------------------------------------------------------------------
(* The batch loop of handleSubscriptions, one round of the while (true) per *)
(* step, on channels of few and of many subscribers.                        *)

FanOutChannel == IdArg(1, FALSE)

FanOutSizes ==
    (0..MaxFewSubscribers)
    \cup {batchSize - 1, batchSize, batchSize + 1, 2 * batchSize}

InitFanOut ==
    /\ \E n \in FanOutSizes :
          db = [InitDb(1) EXCEPT
                  !.subs = {Sub(1000 + i, FanOutChannel.v, "active") : i \in 1..n}]
    /\ now = 0
    /\ last = NoCall
    /\ calls = [c \in CallIds |-> Idle]

\* const result = await Subscription.updateMany(...);
\* if (result.modifiedCount < batchSize) break;
CancelRound ==
    /\ IF last.op = "none" THEN TRUE ELSE ~last.done
    /\ db' = [db EXCEPT !.subs = cancelRound(@, FanOutChannel)]
    /\ last' = [op |-> "handleSubscriptions",
                round |-> IF last.op = "none" THEN 1 ELSE last.round + 1,
                modified |-> modifiedCount(db.subs, FanOutChannel),
                done |-> modifiedCount(db.subs, FanOutChannel) < batchSize]
    /\ UNCHANGED <<now, calls>>

NextFanOut == CancelRound

SpecFanOut == InitFanOut /\ [][NextFanOut]_vars

\* the loop awaits one updateMany after the other: a round that can run
\* does run
SpecFanOutFair == SpecFanOut /\ WF_vars(CancelRound)

----------------------------------------------------------------------------
(* The content processors handleVideos and handleComments run on their own, *)
(* any number of times up to MaxRuns.                                       *)

Processors == {"handleVideos", "handleComments"}

ProcessorRequests ==
    {[proc |-> p, owner |-> IdArg(i, str), policy |-> pol] :
        p \in Processors, i \in UserIds, str \in BOOLEAN, pol \in Policies}

runProcessor(d, req) ==
    IF req.proc = "handleVideos"
    THEN handleVideos(Begin(d), req.owner, req.policy).w
    ELSE handleComments(Begin(d), req.owner, req.policy).w

\* repeated: the run is of the processor, owner and policy of the run before
RunProcessor(req) ==
    /\ IF last.op = "none" THEN TRUE ELSE last.runs < MaxRuns
    /\ db' = runProcessor(db, req)
    /\ last' = [op |-> req.proc, owner |-> req.owner.v, policy |-> req.policy,
                runs |-> IF last.op = "none" THEN 1 ELSE last.runs + 1,
                repeated |-> /\ last.op = req.proc
                             /\ last.owner = req.owner.v
                             /\ last.policy = req.policy]
    /\ UNCHANGED <<now, calls>>

NextProcessors == \E req \in ProcessorRequests : RunProcessor(req)

SpecProcessors == Init /\ [][NextProcessors]_vars

----------------------------------------------------------------------------
(* The first deleteChannel on the initial database, under every combination *)
(* of supplied and missing retention options.                               *)

PolicyOptionInputs ==
    {[dataRetention |-> dr, watchHistoryRetention |-> wh] :
        dr \in {NotGiven}
                  \cup {Given(v, c) : v \in Policies \cup {Absent},
                                      c \in Policies \cup {Absent}},
        wh \in Policies \cup {Absent}}

PolicyRequests ==
    {[userId |-> IdArg(i, str), options |-> o, failAt |-> 0] :
        i \in UserIds, str \in BOOLEAN, o \in PolicyOptionInputs}

NextPolicy ==
    \E req \in PolicyRequests : db.tombs = {} /\ DeleteChannel(req)

SpecPolicy == Init /\ [][NextPolicy]_vars

----------------------------------------------------------------------------
(* Expiry of tombstones by the TTL index of deletedChannelSchema.  The TTL  *)
(* monitor of the storage engine works on the documents as they are stored: *)
(* the collection starts with any of a few stored tombstones, recoverable   *)
(* or consumed (isRecoverable = false, as the save of recoverChannel stores *)
(* it), and the service adds its own.                                       *)

\* the TTL index without its partialFilterExpression
ttlExpired_unfiltered(x, clock) == x.recoveryDeadline <= clock

\* index({ recoveryDeadline: 1 }, { expireAfterSeconds: 0,
\*        partialFilterExpression: { isRecoverable: false } })
ttlExpired(x, clock) == ~x.isRecoverable /\ x.recoveryDeadline <= clock

StoredTombstone(i, u, deadline, recoverable) ==
    [id |-> i, originalUserId |-> u, username |-> u, fullName |-> u,
     email |-> u, stats |-> NoStats, deletionReason |-> "user_request",
     deletedBy |-> Null, recoveryDeadline |-> deadline,
     isRecoverable |-> recoverable,
     dataRetention |-> [videos |-> "archived", comments |-> "anonymized",
                        analytics |-> "archived"]]

\* consumed and recoverable tombstones whose deadline is before, at and
\* after the later time of the clock
StoredTombstones ==
    {StoredTombstone(71, 7, RecoveryDays, FALSE),
     StoredTombstone(72, 8, 2 * RecoveryDays, FALSE),
     StoredTombstone(73, 9, RecoveryDays, TRUE),
     StoredTombstone(74, 10, RecoveryDays + 1, FALSE)}

InitExpiry ==
    /\ \E views \in ViewCounts : \E stored \in SUBSET StoredTombstones :
          db = [InitDb(views) EXCEPT !.tombs = stored]
    /\ now = 0
    /\ last = NoCall
    /\ calls = [c \in CallIds |-> Idle]

ExpiryRequests ==
    {req \in DeleteRequests : req.failAt = 0 /\ ~req.options.dataRetention.given}

\* a pass of the TTL monitor removes an expired document
Expire ==
    \E x \in db.tombs :
        /\ ttlExpired(x, now)
        /\ db' = [db EXCEPT !.tombs = @ \ {x}]
        /\ last' = [NoCall EXCEPT !.op = "ttlMonitor", !.target = x.id,
                                  !.status = 200]
        /\ UNCHANGED <<now, calls>>

NextExpiry ==
    \/ \E req \in ExpiryRequests : DeleteChannel(req)
    \/ Tick
    \/ Expire

SpecExpiry == InitExpiry /\ [][NextExpiry]_vars

----------------------------------------------------------------------------
(* engagementSchema.statics.toggleEngagement, statement by statement, in    *)
(* calls that may run at the same time.  The statics use no transaction:    *)
(* every statement is one operation on the collection.                      *)

EngagementTypes == {"like", "dislike"}

EngDoc(i, u, c, e) ==
    [id |-> i, user |-> u, content |-> c, contentType |-> "video",
     engagementType |-> e]

SameContent(e, req) ==
    /\ e.user = req.user
    /\ e.content = req.content
    /\ e.contentType = "video"

\* getContentEngagementStats: $match on content and contentType, $group by
\* engagementType; the counts of 'like' and 'dislike' are read from it
getContentEngagementStats(engs, contentId) ==
    [likeCount |->
        Cardinality({e \in engs : /\ e.content = contentId
                                  /\ e.contentType = "video"
                                  /\ e.engagementType = "like"}),
     dislikeCount |->
        Cardinality({e \in engs : /\ e.content = contentId
                                  /\ e.contentType = "video"
                                  /\ e.engagementType = "dislike"})]

\* the insert on a collection without the unique index
createEngagement_noIndex(d, req) ==
    [err |-> "",
     db |-> [d EXCEPT !.engs = @ \cup {EngDoc(d.nextId, req.user, req.content,
                                              req.engagementType)},
                      !.nextId = @ + 1]]

\* this.create({...}) under the unique index { user, content, contentType }
createEngagement(d, req) ==
    IF \E e \in d.engs : SameContent(e, req)
    THEN [err |-> "E11000", db |-> d]
    ELSE [err |-> "",
          db |-> [d EXCEPT !.engs = @ \cup {EngDoc(d.nextId, req.user, req.content,
                                                   req.engagementType)},
                           !.nextId = @ + 1]]

ToggleRequests ==
    {[user |-> u, content |-> c, engagementType |-> e] :
        u \in {2, 3}, c \in {11}, e \in EngagementTypes}

ToggleIdle(n) == [st |-> "idle", done |-> n]

NoToggleSummary ==
    [op |-> "none", user |-> Null, content |-> Null, engagementType |-> "",
     isEngaged |-> FALSE, status |-> 0, alone |-> FALSE]

NoToggle ==
    [op |-> "none", user |-> Null, content |-> Null, engagementType |-> "",
     isEngaged |-> FALSE, status |-> 0, alone |-> FALSE, cause |-> "",
     before |-> {}, prev |-> NoToggleSummary]

Summary(l) ==
    [op |-> l.op, user |-> l.user, content |-> l.content,
     engagementType |-> l.engagementType, isEngaged |-> l.isEngaged,
     status |-> l.status, alone |-> l.alone]

InitToggle ==
    /\ db = LET engs == {EngDoc(81, 2, 11, "like"), EngDoc(82, 3, 13, "dislike")}
            IN  [InitDb(1) EXCEPT
                    !.engs = engs,
                    !.videos = {getContentEngagementStats(engs, v.id) @@ v : v \in @}]
    /\ now = 0
    /\ last = NoToggle
    /\ calls = [c \in CallIds |-> ToggleIdle(0)]

RECURSIVE SumDone(_)
SumDone(C) ==
    IF C = {} THEN 0
    ELSE LET c == CHOOSE x \in C : TRUE
         IN  calls[c].done + (IF calls[c].st = "running" THEN 1 ELSE 0)
                + SumDone(C \ {c})

\* the calls that have entered toggleEngagement so far
Started == SumDone(CallIds)

\* the call enters toggleEngagement.  alone: no other call runs while this
\* one does; before: the engagement types the user holds on the content;
\* prev: the call that returned last
StartToggle(c, req) ==
    /\ calls[c].st = "idle"
    /\ Started < MaxToggles
    /\ calls' =
          [o \in CallIds |->
              IF o = c
              THEN [st |-> "running", pc |-> "findOne", req |-> req,
                    done |-> calls[c].done, existing |-> Null,
                    stats |-> getContentEngagementStats({}, Null),
                    alone |-> \A x \in CallIds \ {c} : calls[x].st = "idle",
                    before |-> {e.engagementType :
                                   e \in {x \in db.engs : SameContent(x, req)}},
                    prev |-> Summary(last)]
              ELSE IF calls[o].st = "running"
              THEN [calls[o] EXCEPT !.alone = FALSE]
              ELSE calls[o]]
    /\ UNCHANGED <<db, now, last>>

\* the call returns or throws
EndToggle(c, isEngaged, status, cause) ==
    LET me == calls[c]
    IN  /\ calls' = [calls EXCEPT ![c] = ToggleIdle(me.done + 1)]
        /\ last' = [op |-> "toggleEngagement", user |-> me.req.user,
                    content |-> me.req.content,
                    engagementType |-> me.req.engagementType,
                    isEngaged |-> isEngaged, status |-> status,
                    alone |-> me.alone, cause |-> cause,
                    before |-> me.before, prev |-> me.prev]

\* the next statement of call c
StepToggle(c) ==
    /\ calls[c].st = "running"
    /\ LET me == calls[c]
           req == me.req
           goto(pc) == calls' = [calls EXCEPT ![c] = [me EXCEPT !.pc = pc]]
       IN  CASE me.pc = "findOne" ->
                    LET found == {e \in db.engs :
                                     /\ SameContent(e, req)
                                     /\ e.engagementType = req.engagementType}
                    IN  /\ calls' = [calls EXCEPT ![c] =
                              IF found = {}
                              THEN [me EXCEPT !.pc = "deleteMany"]
                              ELSE [me EXCEPT !.pc = "findByIdAndDelete",
                                              !.existing =
                                                  (CHOOSE e \in found : TRUE).id]]
                        /\ UNCHANGED <<db, now, last>>
             [] me.pc = "findByIdAndDelete" ->
                    /\ db' = [db EXCEPT !.engs = {e \in @ : e.id # me.existing}]
                    /\ goto("aggregate")
                    /\ UNCHANGED <<now, last>>
             [] me.pc = "deleteMany" ->
                    /\ db' = [db EXCEPT !.engs = {e \in @ : ~SameContent(e, req)}]
                    /\ goto("create")
                    /\ UNCHANGED <<now, last>>
             [] me.pc = "create" ->
                    LET r == createEngagement(db, req)
                    IN  IF r.err # ""
                        THEN /\ EndToggle(c, FALSE, 500, r.err)
                             /\ UNCHANGED <<db, now>>
                        ELSE /\ db' = r.db
                             /\ goto("aggregate")
                             /\ UNCHANGED <<now, last>>
             [] me.pc = "aggregate" ->
                    /\ calls' = [calls EXCEPT ![c] =
                          [me EXCEPT !.pc = "findByIdAndUpdate",
                                     !.stats = getContentEngagementStats(
                                                   db.engs, req.content)]]
                    /\ UNCHANGED <<db, now, last>>
             [] me.pc = "findByIdAndUpdate" ->
                    /\ db' = [db EXCEPT !.videos =
                                {IF v.id = req.content
                                 THEN [v EXCEPT !.likeCount = me.stats.likeCount,
                                                !.dislikeCount = me.stats.dislikeCount]
                                 ELSE v : v \in @}]
                    /\ EndToggle(c, me.existing = Null, 200, "")
                    /\ UNCHANGED now

NextToggle ==
    \/ \E c \in CallIds : \E req \in ToggleRequests : StartToggle(c, req)
    \/ \E c \in CallIds : StepToggle(c)

SpecToggle == InitToggle /\ [][NextToggle]_vars

----------------------------------------------------------------------------
(* subscriptionSchema.statics.toggleSubscription next to deleteChannel: the *)
(* two writers of User.subscriberCount.                                     *)

\* countDocuments({ channel, status: 'active' }) written to the channel's
\* User by findByIdAndUpdate
updateSubscriberCounts(d, channelId) ==
    LET activeCount ==
            Cardinality({s \in d.subs :
                s.channel = channelId /\ s.status = "active"})
    IN  [d EXCEPT !.users =
            {IF u.id = channelId
             THEN [u EXCEPT !.subscriberCount = activeCount] ELSE u : u \in @}]

toggleSubscription(d, subscriberId, channelId) ==
    LET existing == {s \in d.subs :
                        s.subscriber = subscriberId /\ s.channel = channelId}
        toggled ==
            IF existing # {}
            THEN {IF s \in existing
                  THEN [s EXCEPT !.status =
                            IF @ = "active" THEN "cancelled" ELSE "active"]
                  ELSE s : s \in d.subs}
            ELSE d.subs \cup {Sub(subscriberId, channelId, "active")}
    IN  updateSubscriberCounts([d EXCEPT !.subs = toggled], channelId)

\* a registered user toggles the subscription to another user's channel
SubscriptionRequests ==
    {req \in {[subscriber |-> s, channel |-> c] : s \in UserIds, c \in UserIds} :
        req.subscriber # req.channel}

ToggleSubscription(req) ==
    /\ Exists(db, req.subscriber)
    /\ Exists(db, req.channel)
    /\ db' = toggleSubscription(db, req.subscriber, req.channel)
    /\ last' = [NoCall EXCEPT !.op = "toggleSubscription",
                              !.target = req.channel, !.status = 200]
    /\ UNCHANGED <<now, calls>>

NextCounts ==
    \/ \E req \in SubscriptionRequests : ToggleSubscription(req)
    \/ \E req \in ExpiryRequests : DeleteChannel(req)

SpecCounts == Init /\ [][NextCounts]_vars

----------------------------------------------------------------------------
(* The watch-history restore over a collection that holds archived records  *)
(* of two deleted channels, stored as documents with the archive marks the  *)
(* filter of the restore reads.                                             *)

ArchivedHistory(i, u, v) ==
    [id |-> i, user |-> u, video |-> v, archived |-> TRUE,
     archivedReason |-> "channel_deleted", originalVideoId |-> v]

\* channel 7 owned video 17 and channel 8 owned video 18: the own history
\* of each and the records of viewers 2 and 3 about their videos
ArchivedHistories ==
    {ArchivedHistory(91, 7, 13), ArchivedHistory(92, 2, 17),
     ArchivedHistory(93, 8, 13), ArchivedHistory(94, 3, 18)}

InitRestore ==
    /\ \E views \in ViewCounts : \E stored \in SUBSET ArchivedHistories :
          db = [InitDb(views) EXCEPT
                  !.whist = @ \cup stored,
                  !.tombs = {StoredTombstone(71, 7, RecoveryDays, TRUE),
                             StoredTombstone(72, 8, RecoveryDays, TRUE)}]
    /\ now = 0
    /\ last = NoCall
    /\ calls = [c \in CallIds |-> Idle]

NextRestore == \E req \in RestoreRequests : RestoreWatchHistory(req)

SpecRestore == InitRestore /\ [][NextRestore]_vars

----------------------------------------------------------------------------
(* Several channels deleted one after the other with watch history          *)
(* 'anonymized', up to MaxAnonymized committed deletions.                   *)

AnonymizedRequests ==
    {[userId |-> IdArg(i, str), options |-> o] :
        i \in UserIds, str \in BOOLEAN,
        o \in {x \in OptionInputs :
                  x.watchHistoryRetention \in {Absent, "anonymized"}}}

DeleteAnonymized(req) ==
    /\ Cardinality(db.tombs) < MaxAnonymized
    /\ LET r == deleteChannel(db, ArgsOf(req))
       IN  /\ db' = r.db
           /\ last' = Call("deleteChannel", req.userId.v, r.result)
    /\ UNCHANGED <<now, calls>>

NextAnonymized == \E req \in AnonymizedRequests : DeleteAnonymized(req)

SpecAnonymized == Init /\ [][NextAnonymized]_vars

----------------------------------------------------------------------------
(* Properties *)

\* the step is a call of op (a repeated call that changes nothing is a
\* stuttering step)
Called(op) == last'.op = op /\ (last' # last \/ db' # db)

Committed(op) == Called(op) /\ last'.status = 200

OwnedVideoIds(d, u) == {v.id : v \in {x \in d.videos : x.owner = u}}

ActiveSubscribers(d, c) ==
    {s.subscriber : s \in {x \in d.subs : x.channel = c /\ x.status = "active"}}

TombstoneOf(d, id) == {x \in d.tombs : x.id = id}

\* C1: a deleteChannel call that fails at any step after the tombstone was
\* created (tombstone creation, any processor, the final user delete) leaves
\* the committed database exactly as it was: no tombstone, no changed record.
C1_DeleteAtomic ==
    [][(Called("deleteChannel") /\ last'.status # 200 /\ last'.step >= 3)
        => db' = db]_vars

\* a deletion failed at the final user delete, after every processor ran
C1_Witness ==
    /\ last.op = "deleteChannel"
    /\ last.status = 500
    /\ last.cause = "injected"
    /\ last.step = Len(DeleteSteps)
    /\ Exists(db, last.target)
    /\ db.tombs = {}

\* the counts of the database in which the call starts
TrueStats(d, u) ==
    [subscriberCount |->
        Cardinality({s \in d.subs : s.channel = u /\ s.status = "active"}),
     videoCount |->
        Cardinality({v \in d.videos : v.owner = u /\ v.isPublished}),
     totalViews |-> SumViews({v \in d.videos : v.owner = u}),
     totalLikes |->
        Cardinality({e \in d.engs :
            /\ e.content \in OwnedVideoIds(d, u)
            /\ e.contentType = "video"
            /\ e.engagementType = "like"}),
     totalComments |-> Cardinality({c \in d.comments : c.owner = u})]

\* C2: after a committed deleteChannel(userId) the stats of the tombstone it
\* created equal the counts of the database in which the call started.
C2_StatsSnapshot ==
    [][Committed("deleteChannel")
        => \E x \in db'.tombs \ db.tombs :
              /\ x.originalUserId = last'.target
              /\ x.stats = TrueStats(db, last'.target)]_vars

\* C3: deleteChannel(userId) on a userId that resolves to no User (the
\* second deletion of a channel) fails with a 404 error and changes nothing.
C3_NotFound ==
    [][(Called("deleteChannel") /\ ~Exists(db, last'.target))
        => (last'.status = 404 /\ db' = db)]_vars

\* C4: after a committed deleteChannel(userId) no Engagement remains on a
\* video that userId owned when the call started.
C4_NoEngagementOnOwned ==
    [][Committed("deleteChannel")
        => \A e \in db'.engs :
              ~(e.contentType = "video"
                /\ e.content \in OwnedVideoIds(db, last'.target))]_vars

\* C5: recoverChannel on an existing tombstone with isRecoverable = true, at
\* or before recoveryDeadline (and no storage failure), succeeds: a User is
\* created from the tombstone and the tombstone has isRecoverable = false.
C5_RecoverySucceeds ==
    [][(/\ Called("recoverChannel")
        /\ last'.cause # "injected"
        /\ \E x \in TombstoneOf(db, last'.target) :
              x.isRecoverable /\ now <= x.recoveryDeadline)
        => (/\ last'.status = 200
            /\ \E u \in db'.users \ db.users :
                  \E x \in TombstoneOf(db, last'.target) : u.username = x.username
            /\ \A x \in TombstoneOf(db', last'.target) : ~x.isRecoverable)]_vars

\* C6: recoverChannel on a tombstone with isRecoverable = false, or after
\* recoveryDeadline, fails with a 400 error and changes nothing.
C6_RecoveryRejected ==
    [][(/\ Called("recoverChannel")
        /\ last'.cause # "injected"
        /\ \E x \in TombstoneOf(db, last'.target) :
              ~x.isRecoverable \/ now > x.recoveryDeadline)
        => (last'.status = 400 /\ db' = db)]_vars

\* C8: a recoverChannel call that fails at any step leaves the tombstone
\* unchanged and creates no User: the committed database is as it was.
C8_RecoverAtomic ==
    [][(Called("recoverChannel") /\ last'.status # 200) => db' = db]_vars

\* a recovery of a recoverable tombstone inside its window failed at the
\* creation of the new User
C8_Witness ==
    /\ last.op = "recoverChannel"
    /\ last.status = 500
    /\ last.step = 4
    /\ \E x \in TombstoneOf(db, last.target) :
          x.isRecoverable /\ now <= x.recoveryDeadline

\* C9: after a committed deleteChannel(channelId) no Subscription to
\* channelId is active, and each that was active is now cancelled.
C9_FanOut ==
    [][Committed("deleteChannel")
        => /\ \A s \in db'.subs : s.channel = last'.target => s.status # "active"
           /\ \A s \in db.subs :
                 (s.channel = last'.target /\ s.status = "active")
                    => [s EXCEPT !.status = "cancelled"] \in db'.subs]_vars

\* a channel with two active subscriptions was deleted
C9_Witness ==
    /\ last.op = "deleteChannel"
    /\ last.status = 200
    /\ Cardinality({s \in db.subs :
          s.channel = last.target /\ s.status = "cancelled"}) >= 2

----------------------------------------------------------------------------
(* Retention policies *)

\* the policy a request asks for, per content class
VideosPolicy(o) ==
    IF o.dataRetention.given /\ o.dataRetention.videos # Absent
    THEN o.dataRetention.videos ELSE "archived"

CommentsPolicy(o) ==
    IF o.dataRetention.given /\ o.dataRetention.comments # Absent
    THEN o.dataRetention.comments ELSE "anonymized"

WatchHistoryPolicy(o) ==
    IF o.watchHistoryRetention # Absent
    THEN o.watchHistoryRetention ELSE "anonymized"

\* the requests asking for policy p (as Policy reads the options) of which
\* the step is a committed deleteChannel call
CommittedDeletes(Policy(_), p) ==
    IF last'.op = "deleteChannel" /\ last'.status = 200 /\ db' # db
    THEN {req \in DeleteRequests :
            /\ req.failAt = 0
            /\ req.userId.v = last'.target
            /\ Policy(req.options) = p
            /\ DeleteChannel(req)}
    ELSE {}

OwnedVideos(d, u) == {v \in d.videos : v.owner = u}
OwnedComments(d, u) == {c \in d.comments : c.owner = u}

\* C11: after a committed deleteChannel(userId) with videos policy 'deleted'
\* no Video that userId owned at the start exists, and with comments policy
\* 'deleted' no Comment that userId owned at the start exists.
C11_DeletedPolicy ==
    [][/\ \A req \in CommittedDeletes(VideosPolicy, "deleted") :
             \A v \in OwnedVideos(db, req.userId.v) :
                ~\E w \in db'.videos : w.id = v.id
       /\ \A req \in CommittedDeletes(CommentsPolicy, "deleted") :
             \A c \in OwnedComments(db, req.userId.v) :
                ~\E w \in db'.comments : w.id = c.id]_vars

\* the channel owning videos 11, 12 and comments 21, 22 was deleted and
\* none of the four records is left
C11_Witness ==
    /\ last.op = "deleteChannel"
    /\ last.status = 200
    /\ last.target = 1
    /\ ~\E v \in db.videos : v.id \in {11, 12}
    /\ ~\E c \in db.comments : c.id \in {21, 22}

\* C12: after a committed deleteChannel(userId) with videos policy
\* 'archived' every Video that userId owned at the start still exists with
\* owner = null, isPublished = false and a marker title that differs from
\* its original title.
C12_ArchivedVideos ==
    [][\A req \in CommittedDeletes(VideosPolicy, "archived") :
          \A v \in OwnedVideos(db, req.userId.v) :
             \E w \in db'.videos :
                /\ w.id = v.id
                /\ w.owner = Null
                /\ ~w.isPublished
                /\ w.title.tag = "[Deleted Channel] "
                /\ w.title # v.title]_vars

\* video 11, published before the deletion of its owner, is archived
C12_Witness ==
    /\ last.op = "deleteChannel"
    /\ last.status = 200
    /\ last.target = 1
    /\ \E w \in db.videos :
          /\ w.id = 11
          /\ w.owner = Null
          /\ ~w.isPublished
          /\ w.title.tag = "[Deleted Channel] "

\* C13: after a committed deleteChannel(userId) with videos policy
\* 'anonymized' every Video that userId owned at the start still exists with
\* owner = null and with isPublished, title and views as they were.
C13_AnonymizedVideos ==
    [][\A req \in CommittedDeletes(VideosPolicy, "anonymized") :
          \A v \in OwnedVideos(db, req.userId.v) :
                   [v EXCEPT !.owner = Null] \in db'.videos]_vars

\* C14: after a committed deleteChannel(userId) with comments policy
\* 'anonymized' (the default) every Comment that userId owned at the start
\* still exists with owner = null and its content unchanged.
C14_AnonymizedComments ==
    [][\A req \in CommittedDeletes(CommentsPolicy, "anonymized") :
          \A c \in OwnedComments(db, req.userId.v) :
                   [c EXCEPT !.owner = Null] \in db'.comments]_vars

\* C15: after a committed deleteChannel(userId) with comments policy
\* 'archived' every Comment that userId owned at the start still exists with
\* owner = null and its content replaced by a marker that differs from the
\* original content (no operation of the service writes a hidden flag).
C15_ArchivedComments ==
    [][\A req \in CommittedDeletes(CommentsPolicy, "archived") :
          \A c \in OwnedComments(db, req.userId.v) :
                   \E w \in db'.comments :
                      /\ w.id = c.id
                      /\ w.owner = Null
                      /\ w.content # c.content]_vars

----------------------------------------------------------------------------
(* Watch history under deletion *)

\* C16: after a committed deleteChannel(userId) with watchHistoryRetention
\* 'deleted' no WatchHistory record has user = userId and no WatchHistory
\* record, of any viewer, is about a video that userId owned when the call
\* started.
C16_WatchHistoryDeleted ==
    [][\A req \in CommittedDeletes(WatchHistoryPolicy, "deleted") :
          \A r \in db'.whist :
                   /\ r.user # req.userId.v
                   /\ r.video \notin OwnedVideoIds(db, req.userId.v)]_vars

\* C17: after a committed deleteChannel(userId) with watchHistoryRetention
\* 'anonymized' (the default) every WatchHistory record that had
\* user = userId still exists with user cleared, and every record of another
\* viewer about a video that userId owned at the start still exists with
\* video cleared (watchHistorySchema has no metadata path to mark it with).
C17_WatchHistoryAnonymized ==
    [][\A req \in CommittedDeletes(WatchHistoryPolicy, "anonymized") :
          \A r \in db.whist :
                   /\ r.user = req.userId.v
                         => \E w \in db'.whist : w.id = r.id /\ w.user = Null
                   /\ (r.user # req.userId.v
                       /\ r.video \in OwnedVideoIds(db, req.userId.v))
                         => \E w \in db'.whist : w.id = r.id /\ w.video = Null]_vars

\* C18: a committed deleteChannel(userId) with watchHistoryRetention
\* 'archived' marks every WatchHistory record of userId, and every record
\* about a video userId owned, as archived for 'channel_deleted' with the
\* video id kept; restoreWatchHistoryForChannel then gives each archived
\* record its original video back and clears the archived mark.
C18_ArchiveRoundTrip ==
    [][/\ \A req \in CommittedDeletes(WatchHistoryPolicy, "archived") :
             \A r \in db.whist :
                (r.user = req.userId.v
                 \/ r.video \in OwnedVideoIds(db, req.userId.v))
                   => \E w \in db'.whist :
                         /\ w.id = r.id
                         /\ Archived(w)
                         /\ w.originalVideoId = r.video
       /\ Called("restoreWatchHistoryForChannel")
             => \A r \in db.whist :
                   Archived(r)
                      => \E w \in db'.whist :
                            /\ w.id = r.id
                            /\ w.video = r.originalVideoId
                            /\ ~w.archived]_vars

----------------------------------------------------------------------------
(* Tombstones *)

----------------------------------------------------------------------------
(* Entry points *)

\* C21: on both deletion entry points a supplied retention value outside
\* {deleted, archived, anonymized} is rejected with a 400 Validation error
\* before the transaction opens (no step of the callback runs), and the
\* database is unchanged.
C21_FailFastValidation ==
    [][/\ \A req \in SelfDeleteRequests :
             (~validRetention(req.dataRetention) /\ DeleteMyChannel(req))
                => (last'.status = 400 /\ last'.step = 0 /\ db' = db)
       /\ \A req \in AdminDeleteRequests :
             (/\ req.isAdmin
              /\ ~validRetention(req.dataRetention)
              /\ last'.op = "adminDeleteChannel"
              /\ AdminDeleteChannel(req))
                => (last'.status = 400 /\ last'.step = 0 /\ db' = db)]_vars

\* C22: when two deleteChannel calls on the same existing userId have run
\* at the same time, at most one of them committed, exactly one tombstone of
\* userId exists, and the other call ended with a not-found (404) or
\* conflict (409) error.
C22_ConcurrentDeletes ==
    (\A c \in CallIds : calls[c].st = "done")
       => LET won == {c \in CallIds : calls[c].result.status = 200}
          IN  /\ Cardinality(won) <= 1
              /\ \A c \in CallIds :
                    Cardinality({x \in db.tombs :
                        x.originalUserId = calls[c].req.userId.v}) = 1
              /\ \A c \in CallIds \ won :
                    calls[c].result.status \in {404, 409}

\* the committed deleteChannel calls of the step, whatever their options
AnyOptions(o) == TRUE

\* C23: a successful deleteChannel returns a result with success = true and
\* tombstoneId equal to the id of the tombstone that the call created.
C23_ReturnsTombstoneId ==
    [][\A req \in CommittedDeletes(AnyOptions, TRUE) :
          LET result == deleteChannel(db, ArgsOf(req)).result
          IN  /\ result.success
              /\ "tombstoneId" \in DOMAIN result
              /\ \E x \in db'.tombs \ db.tombs :
                    result.tombstoneId = x.id]_vars

----------------------------------------------------------------------------
(* Watch-history query *)

\* C25: getUserWatchHistory(userId, options) returns records of userId only;
\* it returns a record with archived = true only when includeArchived is set
\* and a record with metadata.deletedChannel = true only when
\* includeDeletedChannels is set, so with default options it returns neither.
C25_HistoryFilters ==
    last.op = "getUserWatchHistory"
       => \A r \in last.result :
             /\ r.user = last.userId.v
             /\ IsArchived(r) => last.options.includeArchived
             /\ IsFromDeletedChannel(r) => last.options.includeDeletedChannels

\* a query with default options over a history of the user that holds an
\* archived record, a deleted-channel record and a plain one
C25_Witness ==
    /\ last.op = "getUserWatchHistory"
    /\ ~last.options.includeArchived
    /\ ~last.options.includeDeletedChannels
    /\ last.options.page = 1
    /\ last.options.limit = DefaultLimit
    /\ last.result # {}
    /\ \E r \in db.whist : r.user = last.userId.v /\ IsArchived(r)
    /\ \E r \in db.whist : r.user = last.userId.v /\ IsFromDeletedChannel(r)

----------------------------------------------------------------------------
(* Order of the steps *)

\* the statements a running call has completed in its current transaction
Executed(c) == {DeleteSteps[j] : j \in 1..(calls[c].k - 1)}

SpecifiedOrder ==
    <<"findUser", "getChannelStats", "createTombstone", "handleSubscriptions",
      "handleVideos", "handleComments", "handlePlaylists", "handleTweets",
      "handleEngagements", "handleWatchHistory", "deleteUser">>

\* C26: within one deleteChannel the steps run in the order stats snapshot,
\* tombstone creation, handleSubscriptions, handleVideos, handleComments,
\* handlePlaylists, handleTweets, handleEngagements, handleWatchHistory,
\* deletion of the User: at every point of a running call the completed
\* steps are the first ones of that order.
C26_StepOrder ==
    \A c \in CallIds :
        Running(c)
           => \E n \in 0..Len(SpecifiedOrder) :
                 Executed(c) = {SpecifiedOrder[j] : j \in 1..n}

----------------------------------------------------------------------------
(* Batches *)

\* C27: no round of the batch loop of handleSubscriptions changes more than
\* batchSize Subscription records (so N > batchSize active subscriptions
\* take at least ceil(N / batchSize) rounds).
C27_BoundedBatches ==
    [][last'.op = "handleSubscriptions"
          => Cardinality(db'.subs \ db.subs) <= batchSize]_vars

----------------------------------------------------------------------------
(* Markers *)

\* C28: after a committed deleteChannel with videos policy 'archived' the
\* marker titles of the archived videos of the channel are pairwise
\* distinct.
C28_UniqueMarkers ==
    [][\A req \in CommittedDeletes(VideosPolicy, "archived") :
          \A v1, v2 \in db'.videos :
             (/\ v1.id \in OwnedVideoIds(db, req.userId.v)
              /\ v2.id \in OwnedVideoIds(db, req.userId.v)
              /\ v1.id # v2.id) => v1.title # v2.title]_vars

----------------------------------------------------------------------------
(* Idempotence *)

\* C29: for every policy, running handleVideos(ownerId, policy) or
\* handleComments(ownerId, policy) a second time after the first run changes
\* no document.
C29_Idempotent ==
    [][(last'.op \in Processors /\ last'.repeated)
          => \A coll \in Collections : db'[coll] = db[coll]]_vars

\* handleVideos(1, 'archived') was run twice in a row, and the first run
\* had archived video 11
C29_Witness ==
    /\ last.op = "handleVideos"
    /\ last.repeated
    /\ last.owner = 1
    /\ last.policy = "archived"
    /\ last.runs = 2
    /\ \E v \in db.videos : v.id = 11 /\ v.owner = Null /\ ~v.isPublished

----------------------------------------------------------------------------
(* Frame of the subscriptions *)

DeletionOps == {"deleteChannel", "deleteMyChannel", "adminDeleteChannel"}

\* C30: a committed deletion of channel u, through the service or an entry
\* point, removes no Subscription and changes only the active subscriptions
\* to u, which become cancelled: paused and cancelled subscriptions to u and
\* all subscriptions to other channels are as they were.
C30_SubscriptionFrame ==
    [][(last'.op \in DeletionOps /\ last'.status = 200 /\ db' # db)
          => db'.subs =
                {IF s.channel = last'.target /\ s.status = "active"
                 THEN [s EXCEPT !.status = "cancelled"] ELSE s : s \in db.subs}]_vars

\* channel 1 was deleted: its paused subscription is still paused, and the
\* subscription of another channel is still active
C30_Witness ==
    /\ last.op \in DeletionOps
    /\ last.status = 200
    /\ last.target = 1
    /\ Sub(3, 1, "paused") \in db.subs
    /\ Sub(2, 1, "cancelled") \in db.subs
    /\ Sub(3, 2, "active") \in db.subs

----------------------------------------------------------------------------
(* Resolution of the retention options *)

\* what policy p does to the videos user u owned in d, seen in d2
VideosApplied(d, d2, u, p) ==
    \A v \in OwnedVideos(d, u) :
        CASE p = "deleted" -> ~\E w \in d2.videos : w.id = v.id
          [] p = "archived" ->
                \E w \in d2.videos :
                    w.id = v.id /\ w.owner = Null /\ w.title.tag = "[Deleted Channel] "
          [] p = "anonymized" ->
                \E w \in d2.videos :
                    w.id = v.id /\ w.owner = Null /\ w.title.tag = "[Anonymous] "

CommentsApplied(d, d2, u, p) ==
    \A c \in OwnedComments(d, u) :
        CASE p = "deleted" -> ~\E w \in d2.comments : w.id = c.id
          [] p = "anonymized" ->
                \E w \in d2.comments :
                    w.id = c.id /\ w.owner = Null /\ w.content # c.content
          [] p = "archived" ->
                \E w \in d2.comments :
                    w.id = c.id /\ w.owner = Null /\ w.content = c.content

\* the branch of handleWatchHistory taken, seen on the records of viewer u
\* (the 'archived' branch stores nothing)
WatchHistoryApplied(d, d2, u, p) ==
    \A r \in {x \in d.whist : x.user = u} :
        CASE p = "deleted" -> ~\E w \in d2.whist : w.id = r.id
          [] p = "anonymized" -> \E w \in d2.whist : w.id = r.id /\ w.user = Null
          [] p = "archived" -> r \in d2.whist

\* C31: a committed deleteChannel applies, for each of videos, comments and
\* watch history, the supplied value when one is given and otherwise the
\* default (archived, anonymized, anonymized), whatever was supplied for the
\* other fields; and the dataRetention of the tombstone it creates holds the
\* policies applied to videos and to comments.
C31_ResolvedPolicy ==
    [][\A req \in PolicyRequests :
          (/\ last'.op = "deleteChannel"
           /\ last'.status = 200
           /\ db' # db
           /\ req.userId.v = last'.target
           /\ DeleteChannel(req))
             => LET u == req.userId.v
                    dr == req.options.dataRetention
                    videos == IF dr.given /\ dr.videos # Absent
                              THEN dr.videos ELSE "archived"
                    comments == IF dr.given /\ dr.comments # Absent
                                THEN dr.comments ELSE "anonymized"
                    watchHistory ==
                        IF req.options.watchHistoryRetention # Absent
                        THEN req.options.watchHistoryRetention ELSE "anonymized"
                IN  /\ VideosApplied(db, db', u, videos)
                    /\ CommentsApplied(db, db', u, comments)
                    /\ WatchHistoryApplied(db, db', u, watchHistory)
                    /\ \E x \in db'.tombs \ db.tombs :
                          /\ x.dataRetention.videos = videos
                          /\ x.dataRetention.comments = comments]_vars

\* channel 1 was deleted with videos 'anonymized' supplied alone: its videos
\* are anonymized, its comments anonymized and its own watch-history record
\* anonymized by default, and the tombstone says so
C31_Witness ==
    /\ last.op = "deleteChannel"
    /\ last.status = 200
    /\ last.target = 1
    /\ \E x \in db.tombs :
          /\ x.originalUserId = 1
          /\ x.dataRetention.videos = "anonymized"
          /\ x.dataRetention.comments = "anonymized"
    /\ \E w \in db.videos : w.id = 11 /\ w.title.tag = "[Anonymous] "
    /\ \E w \in db.comments :
          w.id = 21 /\ w.owner = Null /\ w.content = Marker("[Comment deleted]", 0)
    /\ \E w \in db.whist : w.id = 31 /\ w.user = Null

----------------------------------------------------------------------------
(* Expiry *)

\* C32: a tombstone is removed only when its isRecoverable is false and its
\* recoveryDeadline has elapsed: a recoverable tombstone is never removed,
\* however long after its deadline, and a consumed one is not removed before
\* its deadline.
C32_ExpiryGuard ==
    [][\A x \in db.tombs :
          (~\E y \in db'.tombs : y.id = x.id)
             => (~x.isRecoverable /\ x.recoveryDeadline <= now)]_vars

\* after the deadline of tombstones 71 and 73 the monitor removed the
\* consumed 71; the recoverable 73 and the consumed 72, whose deadline is
\* ahead, are still stored
C32_Witness ==
    /\ last.op = "ttlMonitor"
    /\ last.target = 71
    /\ now > RecoveryDays
    /\ ~\E x \in db.tombs : x.id = 71
    /\ \E x \in db.tombs :
          x.id = 73 /\ x.isRecoverable /\ x.recoveryDeadline < now
    /\ \E x \in db.tombs :
          x.id = 72 /\ ~x.isRecoverable /\ x.recoveryDeadline > now

----------------------------------------------------------------------------
(* Engagements *)

\* unique index { user: 1, content: 1, contentType: 1 }
EngagementUnique(engs) ==
    \A a, b \in engs :
        (a.user = b.user /\ a.content = b.content
         /\ a.contentType = b.contentType) => a = b

\* the step is the return of a toggleEngagement call that ran with no other
\* call beside it
ReturnedAlone(c) ==
    /\ calls[c].st = "running"
    /\ calls'[c].st = "idle"
    /\ calls[c].alone
    /\ last'.status = 200

Held(d, l) ==
    {e.engagementType :
        e \in {x \in d.engs : /\ x.user = l.user
                               /\ x.content = l.content
                               /\ x.contentType = "video"}}

\* C33: at every point of any toggleEngagement calls, interleaved ones
\* included, there is at most one Engagement per (user, content,
\* contentType); a call that toggles the type the call just before it set,
\* for the same user and content, leaves no engagement; and a call that
\* toggles another type than the one held leaves exactly the new one.
C33_ToggleUnique ==
    /\ []EngagementUnique(db.engs)
    /\ [][\A c \in CallIds :
            ReturnedAlone(c)
               => /\ (/\ last'.prev.op = "toggleEngagement"
                      /\ last'.prev.alone
                      /\ last'.prev.status = 200
                      /\ last'.prev.isEngaged
                      /\ last'.prev.user = last'.user
                      /\ last'.prev.content = last'.content
                      /\ last'.prev.engagementType = last'.engagementType)
                        => Held(db', last') = {}
                  /\ (last'.before # {} /\ last'.engagementType \notin last'.before)
                        => Held(db', last') = {last'.engagementType}]_vars

\* two calls of one user on one content ran at the same time and the insert
\* of one was refused by the unique index: one engagement is stored
C33_Witness ==
    /\ last.op = "toggleEngagement"
    /\ last.cause = "E11000"
    /\ ~last.alone
    /\ Cardinality({e \in db.engs :
          e.user = last.user /\ e.content = last.content}) = 1

----------------------------------------------------------------------------
(* Subscriber counts *)

\* C34: in every state reached by toggleSubscription calls and deleteChannel
\* calls from a database whose counts are right, every existing user c has
\* subscriberCount equal to the number of active Subscriptions with
\* channel = c.
C34_SubscriberCountCache ==
    \A u \in db.users :
        u.subscriberCount =
            Cardinality({s \in db.subs :
                s.channel = u.id /\ s.status = "active"})

----------------------------------------------------------------------------
(* Scope of the watch-history restore *)

\* record r was archived by the deletion of the channel of tombstone x: it
\* is of the channel's own history or about a video the channel owned
ArchivedBy(r, x) ==
    /\ Archived(r)
    /\ \/ r.user = x.originalUserId
       \/ r.originalVideoId = 10 + x.originalUserId

----------------------------------------------------------------------------
(* Uniqueness of the watch history *)

\* C36: whatever deleteChannel calls with watch history 'anonymized' have
\* run, no two WatchHistory records share (user, video), and no deletion of
\* an existing channel is aborted by a duplicate of that pair arising when
\* handleWatchHistory clears the user or the video of a record.
C36_AnonymizedUnique ==
    /\ []WatchHistoryUnique(db.whist)
    /\ [][Called("deleteChannel")
            => ~(/\ last'.status # 200
                 /\ last'.cause = "E11000"
                 /\ DeleteSteps[last'.step] = "handleWatchHistory")]_vars

----------------------------------------------------------------------------
(* Tombstone and User *)

\* C37: in every committed state no tombstone with isRecoverable = true
\* shares its originalUserId with the id of a stored User, whatever
\* deletions, recoveries and failed attempts of either came before; and a
\* tombstone appears only in the step of a deletion that committed.
C37_TombstoneOrUser ==
    /\ [](\A x \in db.tombs : x.isRecoverable => ~Exists(db, x.originalUserId))
    /\ [][\A x \in db'.tombs \ db.tombs :
            /\ last'.op \in DeletionOps
            /\ last'.status = 200
            /\ last'.target = x.originalUserId]_vars

\* a recovery failed after a committed deletion: the tombstone is still
\* recoverable and no User has its id
C37_Witness ==
    /\ last.op = "recoverChannel"
    /\ last.status # 200
    /\ \E x \in db.tombs :
          /\ x.id = last.target
          /\ x.isRecoverable
          /\ ~Exists(db, x.originalUserId)

----------------------------------------------------------------------------
(* Termination of the batch loop *)

\* the loop of handleSubscriptions has left its while (true)
Exited == IF last.op = "none" THEN FALSE ELSE last.done

\* C38: for every number of active subscriptions to the channel (none,
\* fewer than batchSize, batchSize, more, a multiple of batchSize) the batch
\* loop of handleSubscriptions exits after finitely many rounds, and when it
\* has exited no active subscription to the channel remains.
C38_LoopTerminates ==
    /\ [](Exited => modifiedCount(db.subs, FanOutChannel) = 0)
    /\ <>Exited

\* a channel with 2 * batchSize active subscriptions: the loop exited after
\* a second round that found nothing to modify
C38_Witness ==
    /\ Exited
    /\ last.round = 2
    /\ last.modified = 0
    /\ Cardinality({s \in db.subs :
          s.channel = FanOutChannel.v /\ s.status = "cancelled"}) = 2 * batchSize

----------------------------------------------------------------------------
(* Subscriptions of the deleted user *)

\* C39: after a committed deleteChannel(u) no Subscription with status
\* active has subscriber = u.
C39_NoDanglingSubscription ==
    [][Committed("deleteChannel")
          => \A s \in db'.subs :
                ~(s.subscriber = last'.target /\ s.status = "active")]_vars

====
